---------------------------- MODULE Spec2Model ----------------------------
(***************************************************************************)
(* CivicLens backend (src/backend/svc.py): the per-IP token-bucket rate    *)
(* limiter, the length policy and the three summarize endpoints.           *)
(*                                                                         *)
(* Arithmetic.  The limiter computes with real-valued seconds and tokens.  *)
(* The model keeps both exact by scaling them to integers:                 *)
(*   - the clock counts ticks of 1/RL_MAX second (TicksPerSec = RL_MAX);   *)
(*   - tokens are counted in units of 1/(RL_MINUTES*60) token, so that     *)
(*     OneToken = RL_MINUTES*60 units and RL_MAX tokens = RL_MAX*OneToken. *)
(* RL_REFILL_PER_SEC = RL_MAX/(RL_MINUTES*60) tokens per second is then    *)
(* RL_MAX units per second, i.e. exactly one unit per tick, and            *)
(* window_seconds/capacity seconds are exactly OneToken ticks.  Binary     *)
(* floating-point rounding of the products is not modelled.                *)
(***************************************************************************)
EXTENDS Integers, Sequences, FiniteSets, TLC

VARIABLES
    RL_MAX,       \* svc.py:67  capacity, read once from the environment
    RL_MINUTES,   \* svc.py:68  window in minutes, read once from the environment
    now,          \* time.monotonic(), in ticks
    _rl_buckets,  \* svc.py:72  ip -> [tokens, ts]
    hist,         \* observer: per ip, the rl_allow calls made so far, in order
    advances,     \* observer: number of clock advances so far
    lenArgs,      \* the arguments of a clamp_lengths call
    lenOut,       \* what that call returned or raised, once it is done
    heap,         \* the bucket dicts, by reference, when worker threads share them
    thr,          \* per worker thread: where it is in rl_allow, and its locals
    obs,          \* observer of the threaded limiter, per ip
    pending,      \* per ip, the /summarize-url requests suspended in the fetch
    last,         \* observer: the request answered last, with its environment
    text,         \* the argument of a clean_text call, a sequence of characters
    cleaned       \* what clean_text returned, applied again to each result

limiterVars == <<RL_MAX, RL_MINUTES, now, _rl_buckets, hist, advances>>
lengthVars == <<lenArgs, lenOut>>
raceVars == <<heap, thr, obs>>
serviceVars == <<pending, last>>
textVars == <<text, cleaned>>
vars == <<limiterVars, lengthVars, raceVars, serviceVars, textVars>>

-----------------------------------------------------------------------------
(* Bounds of the model *)

MaxCap == 2          \* RL_MAX ranges over 1..MaxCap
MaxMinutes == 1      \* RL_MINUTES ranges over 1..MaxMinutes
MaxCalls == 5        \* rl_allow calls in one behaviour of the limiter
MaxAdvances == 3     \* clock advances in one behaviour
MaxRaceCalls == 3    \* rl_allow calls of all worker threads together
MaxRaceAdvances == 1 \* clock advances while worker threads run
MaxServiceAdvances == 1  \* clock advances while the endpoints serve
MaxPending == 1      \* /summarize-url requests suspended at one time
MaxChars == 3        \* the character budget MAX_INPUT_CHARS of the model
MaxTextLen == 6      \* clean_text is applied to strings of up to MaxTextLen characters
MaxApplications == 2 \* successive applications of clean_text to one string
MaxWords == 90       \* input word counts range over 0..MaxWords
MaxLenArg == 242     \* requested max_len ranges up to MaxLenArg

Clients == {"a", "b"}

Min(x, y) == IF x <= y THEN x ELSE y
Max(x, y) == IF x >= y THEN x ELSE y

-----------------------------------------------------------------------------
(* Rate limiter, svc.py:63-114 *)

TicksPerSec == RL_MAX
OneToken == RL_MINUTES * 60
CapUnits == RL_MAX * OneToken

\* RL_REFILL_PER_SEC = RL_MAX / (RL_MINUTES * 60.0), in units per second
RL_REFILL_PER_SEC == RL_MAX

\* line 103: {"tokens": RL_MAX - 1, "ts": now}
NewBucketFull(t) == [tokens |-> CapUnits, ts |-> t]
NewBucket(t) == [tokens |-> CapUnits - OneToken, ts |-> t]

\* line 106: elapsed = max(0.0, now - b["ts"])
Elapsed(t, b) == Max(0, t - b.ts)

\* line 107: min(RL_MAX, b["tokens"] + elapsed * RL_REFILL_PER_SEC)
RefillUncapped(tokens, elapsed) == tokens + (elapsed * RL_REFILL_PER_SEC) \div TicksPerSec
Refill(tokens, elapsed) ==
    Min(CapUnits, tokens + (elapsed * RL_REFILL_PER_SEC) \div TicksPerSec)

\* line 109: b["tokens"] >= 1.0
HasTokenLoose(tokens) == tokens > 0
HasToken(tokens) == tokens >= OneToken

\* line 110: b["tokens"] -= 1.0
ConsumeNothing(tokens) == tokens
Consume(tokens) == tokens - OneToken

\* lines 112-114: missing / RL_REFILL_PER_SEC seconds, floored at 1.0 second;
\* the value is kept in ticks (seconds * TicksPerSec), which is exact
Retry(tokens) ==
    LET missing == OneToken - tokens
        retry == IF RL_REFILL_PER_SEC > 0
                 THEN (missing * TicksPerSec) \div RL_REFILL_PER_SEC
                 ELSE 60 * TicksPerSec
    IN  Max(1 * TicksPerSec, retry)

\* rl_allow(ip) called at clock reading t on the bucket map m:
\* the new map, the returned pair (allowed, retry_after in ticks) and the
\* value b["tokens"] holds between line 107 and line 110
rl_allow_DenialDropsRefill(m, ip, t) ==
    IF ip \notin DOMAIN m
    THEN [buckets |-> [c \in DOMAIN m \cup {ip} |->
                          IF c = ip THEN NewBucket(t) ELSE m[c]],
          allowed |-> TRUE, retry |-> 0, refilled |-> NewBucket(t).tokens]
    ELSE LET refilled == Refill(m[ip].tokens, Elapsed(t, m[ip]))
         IN  IF HasToken(refilled)
             THEN [buckets |-> [m EXCEPT ![ip] = [tokens |-> Consume(refilled), ts |-> t]],
                   allowed |-> TRUE, retry |-> 0, refilled |-> refilled]
             ELSE [buckets |-> [m EXCEPT ![ip] = [tokens |-> m[ip].tokens, ts |-> t]],
                   allowed |-> FALSE, retry |-> Retry(refilled), refilled |-> refilled]

rl_allow_NewMap(m, ip, t) ==
    IF ip \notin DOMAIN m
    THEN [buckets |-> [c \in {ip} |-> NewBucket(t)],
          allowed |-> TRUE, retry |-> 0, refilled |-> NewBucket(t).tokens]
    ELSE LET refilled == Refill(m[ip].tokens, Elapsed(t, m[ip]))
         IN  IF HasToken(refilled)
             THEN [buckets |-> [m EXCEPT ![ip] = [tokens |-> Consume(refilled), ts |-> t]],
                   allowed |-> TRUE, retry |-> 0, refilled |-> refilled]
             ELSE [buckets |-> [m EXCEPT ![ip] = [tokens |-> refilled, ts |-> t]],
                   allowed |-> FALSE, retry |-> Retry(refilled), refilled |-> refilled]
rl_allow(m, ip, t) ==
    IF ip \notin DOMAIN m
    THEN [buckets |-> [c \in DOMAIN m \cup {ip} |->
                          IF c = ip THEN NewBucket(t) ELSE m[c]],
          allowed |-> TRUE, retry |-> 0, refilled |-> NewBucket(t).tokens]
    ELSE LET refilled == Refill(m[ip].tokens, Elapsed(t, m[ip]))
         IN  IF HasToken(refilled)
             THEN [buckets |-> [m EXCEPT ![ip] = [tokens |-> Consume(refilled), ts |-> t]],
                   allowed |-> TRUE, retry |-> 0, refilled |-> refilled]
             ELSE [buckets |-> [m EXCEPT ![ip] = [tokens |-> refilled, ts |-> t]],
                   allowed |-> FALSE, retry |-> Retry(refilled), refilled |-> refilled]

-----------------------------------------------------------------------------
(* Normalizer, svc.py:126-130.  A string is a sequence of characters; "a"  *)
(* stands for any character \s does not match, " " and "\n" for two that   *)
(* it matches.  The source's budget is 8000 characters (line 75); the      *)
(* model runs the same code on a budget of MaxChars characters, so that    *)
(* strings longer than the budget stay enumerable.                         *)

MAX_INPUT_CHARS == MaxChars

Chars == {"a", " ", "\n"}
IsSpace(c) == c \in {" ", "\n"}

RECURSIVE SkipSpaces(_)
SkipSpaces(s) == IF s # <<>> /\ IsSpace(Head(s)) THEN SkipSpaces(Tail(s)) ELSE s

\* re.sub(r"\s+", " ", s): every maximal run of whitespace becomes one space
RECURSIVE CollapseSpaces(_)
CollapseSpaces(s) ==
    IF s = <<>> THEN <<>>
    ELSE IF IsSpace(Head(s))
         THEN <<" ">> \o CollapseSpaces(SkipSpaces(Tail(s)))
         ELSE <<Head(s)>> \o CollapseSpaces(Tail(s))

RECURSIVE DropTrailingSpaces(_)
DropTrailingSpaces(s) ==
    IF s # <<>> /\ IsSpace(s[Len(s)])
    THEN DropTrailingSpaces(SubSeq(s, 1, Len(s) - 1)) ELSE s

\* str.strip(): leading and trailing whitespace removed
Strip(s) == DropTrailingSpaces(SkipSpaces(s))

\* s[:n]
Slice(s, n) == SubSeq(s, 1, Min(n, Len(s)))

\* line 129 then line 130 (line 128 turns None into "", and a sequence is
\* never None)
clean_text(s) == Slice(Strip(CollapseSpaces(s)), MAX_INPUT_CHARS)

-----------------------------------------------------------------------------
(* Length policy, svc.py:137-184.  The arguments are integers (the request *)
(* schemas declare them int), so lines 148-160 never raise.                *)

MIN_ALLOWED == 1
MAX_ALLOWED == 240

BadLengths(msg) ==
    [ok |-> FALSE, status |-> 422, code |-> "BAD_LENGTHS", message |-> msg]

\* MIN_ALLOWED <= min_len < max_len <= MAX_ALLOWED (lines 162, 165, 178)
ValidBoundsLoose(min_len, max_len) ==
    MIN_ALLOWED <= min_len /\ min_len <= max_len /\ max_len <= MAX_ALLOWED
ValidBounds(min_len, max_len) ==
    MIN_ALLOWED <= min_len /\ min_len < max_len /\ max_len <= MAX_ALLOWED

\* line 171: input_words < 80
ShortInputInclusive(input_words) == input_words <= 80
ShortInput(input_words) == input_words < 80

\* line 172: min(120, max(40, int(input_words * 1.2))); int() truncates, and
\* int(w * 1.2) = (12 w) div 10 for the word counts w >= 0
NewMaxNoFloor(input_words) == Min(120, (input_words * 12) \div 10)
NewMaxCeil(input_words) == Min(120, Max(40, (input_words * 12 + 9) \div 10))
NewMax(input_words) == Min(120, Max(40, (input_words * 12) \div 10))

\* line 176: min(min_len, max_len - 10) if max_len - 10 >= MIN_ALLOWED else MIN_ALLOWED
PullDownMinKept(min_len, max_len) ==
    IF max_len - 10 >= MIN_ALLOWED THEN min_len ELSE MIN_ALLOWED
PullDownMin(min_len, max_len) ==
    IF max_len - 10 >= MIN_ALLOWED THEN Min(min_len, max_len - 10) ELSE MIN_ALLOWED

\* lines 171-182: the short-input regime, on bounds that passed lines 162-169
ShrinkForShortInput(min_len, max_len, input_words) ==
    LET capped == Min(max_len, NewMax(input_words))                 \* line 173
        mx == IF capped < 2 THEN 2 ELSE capped                      \* lines 174-175
        mn == PullDownMin(min_len, mx)                              \* line 176
    IN  IF ~ValidBounds(mn, mx)                                     \* line 178
        THEN BadLengths("Chosen length is invalid for this input")
        ELSE [ok |-> TRUE, min_len |-> mn, max_len |-> mx]

clamp_lengths(min_len, max_len, input_words) ==
    LET valid == ValidBounds(min_len, max_len)                      \* line 162
        mn == IF valid THEN min_len ELSE Max(MIN_ALLOWED, min_len)  \* line 163
        mx == IF valid THEN max_len ELSE Min(MAX_ALLOWED, max_len)  \* line 164
    IN  IF ~valid /\ ~(mn < mx)                                     \* line 165
        THEN BadLengths("Invalid bounds")
        ELSE IF ShortInput(input_words)                             \* line 171
             THEN ShrinkForShortInput(mn, mx, input_words)
             ELSE [ok |-> TRUE, min_len |-> mn, max_len |-> mx]     \* line 184

-----------------------------------------------------------------------------
(* Endpoints, svc.py:249-441.                                              *)
(*                                                                         *)
(* A request is the fields of its body the handler reads, reduced to what  *)
(* decides its control flow: text and HTML are represented by the word     *)
(* counts the normalizer and the extractors obtain from them.  The         *)
(* collaborators are the request's environment env:                        *)
(*   fetch     what httpx did: "ok", or it raised ("refused", "timeout",   *)
(*             or raise_for_status() on a "non2xx" answer);                *)
(*   primary   the word count of what extract_trafilatura returns;         *)
(*   fallback  the word count of what extract_selectolax returns;          *)
(*   raises    which of "trafilatura", "selectolax", "summarizer" raise    *)
(*             an exception instead of returning;                          *)
(*   logfail   which of the handler's log_json calls raise (print and      *)
(*             json.dumps are not guarded), counted from 1;                *)
(*   ms        the duration measured around a stage that ran.              *)
(* The handler's result is the response (status, error code, whether the   *)
(* body is the error envelope or a summary, the Retry-After header), the   *)
(* stages it ran, the extractors it called, the log records it printed and *)
(* the bounds it handed to the model.  Log fields text_len, host and ts    *)
(* are left out.                                                           *)

MODEL_FLAG == "distilbart"

NoBounds == [min_len |-> 0, max_len |-> 0]

Response(status, code, envelope, summary, retry_after, stages, extractors, logs, bounds) ==
    [status |-> status, code |-> code, envelope |-> envelope, summary |-> summary,
     retry_after |-> retry_after, stages |-> stages, extractors |-> extractors,
     logs |-> logs, bounds |-> bounds]

\* raise HTTPException(status_code=..., detail={"error": {"code": ..., "message": ...}})
Error(status, code, stages, extractors, logs) ==
    Response(status, code, TRUE, FALSE, -1, stages, extractors, logs, NoBounds)

\* an exception no handler catches: the framework answers 500 without the envelope
Unhandled(stages, extractors, logs) ==
    Response(500, "UNTRANSLATED", FALSE, FALSE, -1, stages, extractors, logs, NoBounds)

\* log_json(**fields), the k-th call of this request: it prints rec, or raises
LogRaises(env, k) == k \in env.logfail

\* the fields every log call after admission passes
LogRec(endpoint, status, ip, words, fetch_ms, extract_ms, summarize_ms, error) ==
    [endpoint |-> endpoint, status |-> status, ip |-> ip, words |-> words,
     fetch_ms |-> fetch_ms, extract_ms |-> extract_ms, summarize_ms |-> summarize_ms,
     model |-> MODEL_FLAG, error |-> error, rl_allowed |-> TRUE]

\* lines 259, 306, 389: "Retry-After": str(int(retry)); int() truncates the
\* float, and retry is held in ticks
RetryAfterHeader(retry) == retry \div TicksPerSec

\* lines 255-261, 302-308, 385-391: the limiter denied the request
Denied(endpoint, ip, env, rl) ==
    IF LogRaises(env, 1)
    THEN Unhandled(<<"admit">>, <<>>, <<>>)
    ELSE Response(429, "RATE_LIMIT", TRUE, FALSE, RetryAfterHeader(rl.retry),
                  <<"admit">>, <<>>,
                  <<[endpoint |-> endpoint, status |-> 429, ip |-> ip,
                     error |-> "RATE_LIMIT", rl_allowed |-> FALSE]>>,
                  NoBounds)

\* lines 274-293, 356-375, 414-431: the model call inside try/except Exception.
\* The success log is printed inside the try block, so when it raises the
\* except branch runs, logs MODEL_FAILURE (the request's next log call) and
\* answers 500.
Invoke(endpoint, ip, env, words, bounds, fetch_ms, extract_ms, stages, extractors) ==
    LET st == Append(stages, "summarize")
        failure(k) ==
            IF LogRaises(env, k)
            THEN Unhandled(st, extractors, <<>>)
            ELSE Error(500, "MODEL_FAILURE", st, extractors,
                       <<LogRec(endpoint, 500, ip, words, fetch_ms, extract_ms, 0,
                                "MODEL_FAILURE")>>)
    IN  IF "summarizer" \in env.raises
        THEN failure(1)
        ELSE IF LogRaises(env, 1)
             THEN failure(2)
             ELSE Response(200, "NONE", FALSE, TRUE, -1, st, extractors,
                           <<LogRec(endpoint, 200, ip, words, fetch_ms, extract_ms,
                                    env.ms, "NONE")>>,
                           bounds)

\* lines 272, 354, 412 and what follows: clamp_lengths raises its own
\* HTTPException outside any try block and without a log call
ResolveAndInvoke(endpoint, req, env, words, fetch_ms, extract_ms, stages, extractors) ==
    LET lb == clamp_lengths(req.min_len, req.max_len, words)
        st == Append(stages, "resolve")
    IN  IF ~lb.ok
        THEN Error(lb.status, lb.code, st, extractors, <<>>)
        ELSE Invoke(endpoint, req.ip, env, words,
                    [min_len |-> lb.min_len, max_len |-> lb.max_len],
                    fetch_ms, extract_ms, st, extractors)

\* lines 340 and 399: if words < 30, on the word count of the primary's text
NeedsFallbackInclusive(words) == words <= 30
NeedsFallback(words) == words < 30

\* lines 336-350 and 395-409: primary extractor, fallback below 30 words,
\* NO_CONTENT below 30 words after both; nothing catches what they raise
ExtractAndOn(endpoint, req, env, fetch_ms, stages) ==
    LET st == Append(stages, "extract")
    IN  IF "trafilatura" \in env.raises
        THEN Unhandled(st, <<"trafilatura">>, <<>>)
        ELSE IF NeedsFallback(env.primary) /\ "selectolax" \in env.raises
        THEN Unhandled(st, <<"trafilatura", "selectolax">>, <<>>)
        ELSE LET used == IF NeedsFallback(env.primary)
                         THEN <<"trafilatura", "selectolax">> ELSE <<"trafilatura">>
                 words == IF NeedsFallback(env.primary) THEN env.fallback ELSE env.primary
             IN  IF words < 30
                 THEN IF LogRaises(env, 1)
                      THEN Unhandled(st, used, <<>>)
                      ELSE Error(422, "NO_CONTENT", st, used,
                                 <<LogRec(endpoint, 422, req.ip, words, fetch_ms, env.ms,
                                          0, "NO_CONTENT")>>)
                 ELSE ResolveAndInvoke(endpoint, req, env, words, fetch_ms, env.ms,
                                       st, used)

\* POST /summarize, lines 249-293; the content step is clean_text and the
\* empty-text test of lines 263-269
summarize(req, env, rl) ==
    IF ~rl.allowed
    THEN Denied("summarize", req.ip, env, rl)
    ELSE LET st == <<"admit", "extract">>
         IN  IF req.text_words = 0
             THEN IF LogRaises(env, 1)
                  THEN Unhandled(st, <<>>, <<>>)
                  ELSE Error(422, "NO_CONTENT", st, <<>>,
                             <<LogRec("summarize", 422, req.ip, 0, 0, 0, 0, "NO_CONTENT")>>)
             ELSE ResolveAndInvoke("summarize", req, env, req.text_words, 0, 0, st, <<>>)

\* POST /summarize-url, lines 296-375, from the fetch on (the part after
\* rl_allow admitted the request)
summarize_url_fetch(req, env) ==
    LET st == <<"admit", "fetch">>
    IN  IF env.fetch # "ok"
        THEN IF LogRaises(env, 1)
             THEN Unhandled(st, <<>>, <<>>)
             ELSE Error(502, "FETCH_FAILED", st, <<>>,
                        <<LogRec("summarize-url", 502, req.ip, 0, 0, 0, 0, "FETCH_FAILED")>>)
        ELSE ExtractAndOn("summarize-url", req, env, env.ms, st)

summarize_url(req, env, rl) ==
    IF ~rl.allowed
    THEN Denied("summarize-url", req.ip, env, rl)
    ELSE summarize_url_fetch(req, env)

\* POST /summarize-html, lines 378-431
summarize_html(req, env, rl) ==
    IF ~rl.allowed
    THEN Denied("summarize-html", req.ip, env, rl)
    ELSE ExtractAndOn("summarize-html", req, env, 0, <<"admit">>)

\* POST /feedback, lines 434-441: one log call, then 204
feedback(req, env) ==
    IF LogRaises(env, 1)
    THEN Unhandled(<<>>, <<>>, <<>>)
    ELSE Response(204, "NONE", FALSE, FALSE, -1, <<>>, <<>>,
                  <<[type |-> "feedback", ip |-> req.ip]>>, NoBounds)

Handle(req, env, rl) ==
    CASE req.endpoint = "summarize" -> summarize(req, env, rl)
      [] req.endpoint = "summarize-url" -> summarize_url(req, env, rl)
      [] req.endpoint = "summarize-html" -> summarize_html(req, env, rl)
      [] req.endpoint = "feedback" -> feedback(req, env)

-----------------------------------------------------------------------------
(* The limiter alone: calls of rl_allow under a non-decreasing clock *)

\* How long a client may wait between calls: one tick, one second, or
\* window_seconds / capacity seconds (the time one token takes to refill)
Waits == {1, TicksPerSec, OneToken}

\* ... or, after a denial, exactly as long as its Retry-After header says
RetryWaits ==
    {RetryAfterHeader(hist[c][Len(hist[c])].retry) * TicksPerSec :
        c \in {x \in Clients : hist[x] # <<>> /\ ~hist[x][Len(hist[x])].ok}}

TotalCalls == LET RECURSIVE Sum(_)
                  Sum(S) == IF S = {} THEN 0
                            ELSE LET c == CHOOSE x \in S : TRUE
                                 IN  Len(hist[c]) + Sum(S \ {c})
              IN  Sum(Clients)

RaceIdle == heap = <<>> /\ thr = <<>> /\ obs = <<>>
ServiceIdle == pending = <<>> /\ last = [done |-> FALSE]
TextIdle == text = <<>> /\ cleaned = <<>>

LimiterInit ==
    /\ RL_MAX \in 1..MaxCap
    /\ RL_MINUTES \in 1..MaxMinutes
    /\ now = 0
    /\ _rl_buckets = <<>>
    /\ hist = [c \in Clients |-> <<>>]
    /\ advances = 0
    /\ lenArgs = "none" /\ lenOut = [done |-> FALSE]
    /\ RaceIdle /\ ServiceIdle /\ TextIdle

Call(ip) ==
    /\ TotalCalls < MaxCalls
    /\ LET r == rl_allow(_rl_buckets, ip, now)
       IN  /\ _rl_buckets' = r.buckets
           /\ hist' = [hist EXCEPT ![ip] =
                         Append(@, [t |-> now, ok |-> r.allowed, retry |-> r.retry,
                                    pre |-> r.refilled])]
    /\ UNCHANGED <<RL_MAX, RL_MINUTES, now, advances, lengthVars, raceVars, serviceVars, textVars>>

Advance(d) ==
    /\ advances < MaxAdvances
    /\ now' = now + d
    /\ advances' = advances + 1
    /\ UNCHANGED <<RL_MAX, RL_MINUTES, _rl_buckets, hist, lengthVars, raceVars, serviceVars, textVars>>

LimiterNext ==
    \/ \E ip \in Clients : Call(ip)
    \/ \E d \in Waits \cup RetryWaits : Advance(d)

SpecLimiter == LimiterInit /\ [][LimiterNext]_vars

-----------------------------------------------------------------------------
(* The length policy alone: clamp_lengths applied to every triple of       *)
(* arguments drawn from the sets below                                     *)

MinLenArgs == {m \in -1..MaxLenArg :
                  \/ m <= 12
                  \/ m % 10 = 0
                  \/ m \in {39, 41, 119, 121}
                  \/ m >= 239}
MaxLenArgs == -1..MaxLenArg

LimiterIdle ==
    /\ RL_MAX = 1 /\ RL_MINUTES = 1 /\ now = 0
    /\ _rl_buckets = <<>>
    /\ hist = [c \in Clients |-> <<>>]
    /\ advances = 0

LengthsInit ==
    /\ LimiterIdle
    /\ lenArgs \in [min_len : MinLenArgs, max_len : MaxLenArgs, input_words : 0..MaxWords]
    /\ lenOut = [done |-> FALSE]
    /\ RaceIdle /\ ServiceIdle /\ TextIdle

Resolve ==
    /\ ~lenOut.done
    /\ lenOut' = [done |-> TRUE,
                  res |-> clamp_lengths(lenArgs.min_len, lenArgs.max_len,
                                        lenArgs.input_words)]
    /\ UNCHANGED <<lenArgs, limiterVars, raceVars, serviceVars, textVars>>

LengthsNext == Resolve

SpecLengths == LengthsInit /\ [][LengthsNext]_vars

-----------------------------------------------------------------------------
(* The normalizer alone: clean_text applied to a string, then to its own   *)
(* result                                                                  *)

Strings == UNION {[1..n -> Chars] : n \in 0..MaxTextLen}

TextInit ==
    /\ LimiterIdle
    /\ lenArgs = "none" /\ lenOut = [done |-> FALSE]
    /\ RaceIdle /\ ServiceIdle
    /\ text \in Strings
    /\ cleaned = <<>>

\* s = clean_text(s), first on the argument and then on what came back
CleanText ==
    /\ Len(cleaned) < MaxApplications
    /\ cleaned' = Append(cleaned,
                         clean_text(IF cleaned = <<>> THEN text ELSE cleaned[Len(cleaned)]))
    /\ UNCHANGED <<text, limiterVars, lengthVars, raceVars, serviceVars>>

TextNext == CleanText

SpecText == TextInit /\ [][TextNext]_vars

-----------------------------------------------------------------------------
-----------------------------------------------------------------------------
(* The limiter under worker threads.  /summarize and /summarize-html are   *)
(* plain `def` endpoints (lines 250, 379), which the framework runs on a   *)
(* thread pool, so several rl_allow calls run at once and a thread switch  *)
(* may fall between any two accesses to the shared map or to a bucket.     *)
(* Each step below is one such access; pc names the line it belongs to.    *)
(* Here _rl_buckets maps an ip to a reference into heap, as the dict does. *)

Threads == {"t1", "t2"}

ThreadIdle == [pc |-> "idle", ip |-> "", now |-> 0, b |-> 0, elapsed |-> 0,
               tmp |-> 0, tested |-> 0, calls |-> 0,
               ret |-> [done |-> FALSE, allowed |-> FALSE, retry |-> 0,
                        tested |-> 0, ip |-> "", now |-> 0, b |-> 0]]

\* the clock moves by the time one token takes to refill
RaceWaits == {OneToken}

RaceInit ==
    /\ RL_MAX \in 1..MaxCap
    /\ RL_MINUTES \in 1..MaxMinutes
    /\ now = 0
    /\ _rl_buckets = <<>>
    /\ hist = [c \in Clients |-> <<>>]
    /\ advances = 0
    /\ lenArgs = "none" /\ lenOut = [done |-> FALSE]
    /\ heap = <<>>
    /\ thr = [t \in Threads |-> ThreadIdle]
    /\ obs = [c \in Clients |-> [admitted |-> 0, first |-> -1, overlap |-> FALSE]]
    /\ ServiceIdle /\ TextIdle

RaceFrame == UNCHANGED <<RL_MAX, RL_MINUTES, hist, advances, lengthVars, serviceVars, textVars>>

\* another thread is inside rl_allow for the same ip
Overlapping(t, ip) == \E u \in Threads \ {t} : thr[u].pc # "idle" /\ thr[u].ip = ip

\* the call of thread t returns (allowed, retry): its locals die, and the
\* observer keeps what it returned, what line 109 tested and on which dict
Return(t, allowed, retry) ==
    [ThreadIdle EXCEPT !.calls = thr[t].calls,
                       !.ret = [done |-> TRUE, allowed |-> allowed, retry |-> retry,
                                tested |-> thr[t].tested, ip |-> thr[t].ip,
                                now |-> thr[t].now, b |-> thr[t].b]]

Admit(ip) == [obs EXCEPT ![ip].admitted = @ + 1]

RaceCalls == LET RECURSIVE Sum(_)
                 Sum(S) == IF S = {} THEN 0
                           ELSE LET t == CHOOSE x \in S : TRUE
                                IN  thr[t].calls + Sum(S \ {t})
             IN  Sum(Threads)

\* line 100: now = _now_s()
L100(t, ip) ==
    /\ thr[t].pc = "idle"
    /\ RaceCalls < MaxRaceCalls
    /\ thr' = [thr EXCEPT ![t] = [@ EXCEPT !.pc = "L101", !.ip = ip, !.now = now,
                                           !.calls = @ + 1]]
    /\ obs' = [obs EXCEPT ![ip] = [@ EXCEPT
                   !.first = IF @ = -1 THEN now ELSE @,
                   !.overlap = @ \/ Overlapping(t, ip)]]
    /\ UNCHANGED <<now, _rl_buckets, heap>>
    /\ RaceFrame

\* lines 101-102: b = _rl_buckets.get(ip); if not b
L101(t) ==
    /\ thr[t].pc = "L101"
    /\ LET ip == thr[t].ip
           b == IF ip \in DOMAIN _rl_buckets THEN _rl_buckets[ip] ELSE 0
       IN  thr' = [thr EXCEPT ![t] = [@ EXCEPT !.b = b,
                                               !.pc = IF b = 0 THEN "L103" ELSE "L106"]]
    /\ UNCHANGED <<now, _rl_buckets, heap, obs>>
    /\ RaceFrame

\* lines 103-104: a new dict is stored under ip; return True, 0.0
L103(t) ==
    /\ thr[t].pc = "L103"
    /\ LET ip == thr[t].ip
       IN  /\ heap' = Append(heap, NewBucket(thr[t].now))
           /\ _rl_buckets' = [c \in DOMAIN _rl_buckets \cup {ip} |->
                                 IF c = ip THEN Len(heap) + 1 ELSE _rl_buckets[c]]
           /\ thr' = [thr EXCEPT ![t] = Return(t, TRUE, 0)]
           /\ obs' = Admit(ip)
    /\ UNCHANGED now
    /\ RaceFrame

\* line 106: elapsed = max(0.0, now - b["ts"])
L106(t) ==
    /\ thr[t].pc = "L106"
    /\ thr' = [thr EXCEPT ![t] = [@ EXCEPT !.elapsed = Elapsed(thr[t].now, heap[thr[t].b]),
                                           !.pc = "L107r"]]
    /\ UNCHANGED <<now, _rl_buckets, heap, obs>>
    /\ RaceFrame

\* line 107, right-hand side: min(RL_MAX, b["tokens"] + elapsed * RL_REFILL_PER_SEC)
L107r(t) ==
    /\ thr[t].pc = "L107r"
    /\ thr' = [thr EXCEPT ![t] = [@ EXCEPT
                   !.tmp = Refill(heap[thr[t].b].tokens, thr[t].elapsed),
                   !.pc = "L107w"]]
    /\ UNCHANGED <<now, _rl_buckets, heap, obs>>
    /\ RaceFrame

\* line 107, the store b["tokens"] = ...
L107w(t) ==
    /\ thr[t].pc = "L107w"
    /\ heap' = [heap EXCEPT ![thr[t].b].tokens = thr[t].tmp]
    /\ thr' = [thr EXCEPT ![t].pc = "L108"]
    /\ UNCHANGED <<now, _rl_buckets, obs>>
    /\ RaceFrame

\* line 108: b["ts"] = now
L108(t) ==
    /\ thr[t].pc = "L108"
    /\ heap' = [heap EXCEPT ![thr[t].b].ts = thr[t].now]
    /\ thr' = [thr EXCEPT ![t].pc = "L109"]
    /\ UNCHANGED <<now, _rl_buckets, obs>>
    /\ RaceFrame

\* line 109: if b["tokens"] >= 1.0
L109(t) ==
    /\ thr[t].pc = "L109"
    /\ thr' = [thr EXCEPT ![t] = [@ EXCEPT
                   !.tested = heap[thr[t].b].tokens,
                   !.pc = IF HasToken(heap[thr[t].b].tokens) THEN "L110r" ELSE "L112"]]
    /\ UNCHANGED <<now, _rl_buckets, heap, obs>>
    /\ RaceFrame

\* line 110, the load and subtraction of b["tokens"] -= 1.0
L110r(t) ==
    /\ thr[t].pc = "L110r"
    /\ thr' = [thr EXCEPT ![t] = [@ EXCEPT
                   !.tmp = Consume(heap[thr[t].b].tokens),
                   !.pc = "L110w"]]
    /\ UNCHANGED <<now, _rl_buckets, heap, obs>>
    /\ RaceFrame

\* line 110, the store, and line 111: return True, 0.0
L110w(t) ==
    /\ thr[t].pc = "L110w"
    /\ heap' = [heap EXCEPT ![thr[t].b].tokens = thr[t].tmp]
    /\ thr' = [thr EXCEPT ![t] = Return(t, TRUE, 0)]
    /\ obs' = Admit(thr[t].ip)
    /\ UNCHANGED <<now, _rl_buckets>>
    /\ RaceFrame

\* lines 112-114: return False, max(1.0, retry)
L112(t) ==
    /\ thr[t].pc = "L112"
    /\ thr' = [thr EXCEPT ![t] = Return(t, FALSE, Retry(heap[thr[t].b].tokens))]
    /\ UNCHANGED <<now, _rl_buckets, heap, obs>>
    /\ RaceFrame

RaceAdvance(d) ==
    /\ advances < MaxRaceAdvances
    /\ now' = now + d
    /\ advances' = advances + 1
    /\ UNCHANGED <<RL_MAX, RL_MINUTES, _rl_buckets, hist, lengthVars, raceVars, serviceVars, textVars>>

RaceNext ==
    \/ \E t \in Threads, ip \in Clients : L100(t, ip)
    \/ \E t \in Threads : L101(t)
    \/ \E t \in Threads : L103(t)
    \/ \E t \in Threads : L106(t)
    \/ \E t \in Threads : L107r(t)
    \/ \E t \in Threads : L107w(t)
    \/ \E t \in Threads : L108(t)
    \/ \E t \in Threads : L109(t)
    \/ \E t \in Threads : L110r(t)
    \/ \E t \in Threads : L110w(t)
    \/ \E t \in Threads : L112(t)
    \/ \E d \in RaceWaits : RaceAdvance(d)

SpecRace == RaceInit /\ [][RaceNext]_vars

-----------------------------------------------------------------------------
(* The service: requests to the endpoints, one handler at a time.  A       *)
(* handler runs from its first line to its response without interruption,  *)
(* except /summarize-url, which is `async def` and is suspended in         *)
(* `await client.get` (line 325) while other requests are served.  The     *)
(* observer `last` holds the request being answered until the response has *)
(* left (Respond).                                                         *)

LenRequests == {[min_len |-> 60, max_len |-> 180],     \* the schema defaults
                [min_len |-> 150, max_len |-> 100],
                [min_len |-> 0, max_len |-> 300]}
TextWords == {0, 10, 100}
PrimaryWords == {10, 29, 30, 100}
FallbackWords == {10, 29, 30, 40}
FetchFailures == {"refused", "timeout", "non2xx"}
Durations == {7}
Raisers == {"trafilatura", "selectolax", "summarizer"}
\* the first log call raises, or the first two, or none
LogFailures == {{}, {1}, {1, 2}}

Requests(endpoint, words) ==
    {[endpoint |-> endpoint, ip |-> ip, min_len |-> l.min_len, max_len |-> l.max_len,
      text_words |-> w] : ip \in Clients, l \in LenRequests, w \in words}

Envs(fetches, primaries, fallbacks, raisers, logfails) ==
    [fetch : fetches, primary : primaries, fallback : fallbacks,
     raises : SUBSET raisers, logfail : logfails, ms : Durations]

\* the environment of a request that consults only log_json
LogOnlyEnvs == Envs({"ok"}, {0}, {0}, {}, {{}, {1}})

\* what rl_allow returned to the handler
Admission(r) == [allowed |-> r.allowed, retry |-> r.retry]

Answered(req, env, rl) ==
    [done |-> TRUE, req |-> req, env |-> env, rl |-> rl, out |-> Handle(req, env, rl)]

PendingTotal == LET RECURSIVE Sum(_)
                    Sum(S) == IF S = {} THEN 0
                              ELSE LET c == CHOOSE x \in S : TRUE
                                   IN  pending[c] + Sum(S \ {c})
                IN  Sum(Clients)

Init ==
    /\ RL_MAX \in 1..MaxCap
    /\ RL_MINUTES \in 1..MaxMinutes
    /\ now = 0
    /\ _rl_buckets = <<>>
    /\ hist = [c \in Clients |-> <<>>]
    /\ advances = 0
    /\ lenArgs = "none" /\ lenOut = [done |-> FALSE]
    /\ RaceIdle /\ TextIdle
    /\ pending = [c \in Clients |-> 0]
    /\ last = [done |-> FALSE]

ServiceFrame ==
    UNCHANGED <<RL_MAX, RL_MINUTES, now, hist, advances, lengthVars, raceVars, textVars>>

Summarize ==
    /\ ~last.done
    /\ \E req \in Requests("summarize", TextWords),
          env \in Envs({"ok"}, {0}, {0}, {"summarizer"}, LogFailures) :
           LET r == rl_allow(_rl_buckets, req.ip, now)
           IN  /\ _rl_buckets' = r.buckets
               /\ last' = Answered(req, env, Admission(r))
    /\ UNCHANGED pending
    /\ ServiceFrame

SummarizeHtml ==
    /\ ~last.done
    /\ \E req \in Requests("summarize-html", {0}),
          env \in Envs({"ok"}, PrimaryWords, FallbackWords, Raisers, LogFailures) :
           LET r == rl_allow(_rl_buckets, req.ip, now)
           IN  /\ _rl_buckets' = r.buckets
               /\ last' = Answered(req, env, Admission(r))
    /\ UNCHANGED pending
    /\ ServiceFrame

\* /summarize-url up to `await client.get`: a denied request is answered at
\* once, an admitted one is suspended
SummarizeUrlBegin ==
    /\ ~last.done
    /\ \E req \in Requests("summarize-url", {0}), env \in LogOnlyEnvs :
           LET r == rl_allow(_rl_buckets, req.ip, now)
           IN  /\ _rl_buckets' = r.buckets
               /\ IF r.allowed
                  THEN /\ PendingTotal < MaxPending
                       /\ pending' = [pending EXCEPT ![req.ip] = @ + 1]
                       /\ UNCHANGED last
                  ELSE /\ last' = Answered(req, env, Admission(r))
                       /\ UNCHANGED pending
    /\ ServiceFrame

\* /summarize-url from the moment the fetch returns or raises; the bounds
\* of the body are read only now (line 354)
SummarizeUrlResume ==
    /\ ~last.done
    /\ \E req \in Requests("summarize-url", {0}),
          env \in Envs({"ok"}, PrimaryWords, FallbackWords, Raisers, LogFailures)
                  \cup Envs(FetchFailures, {0}, {0}, {}, {{}, {1}}) :
           /\ pending[req.ip] > 0
           /\ pending' = [pending EXCEPT ![req.ip] = @ - 1]
           /\ last' = Answered(req, env, [allowed |-> TRUE, retry |-> 0])
    /\ UNCHANGED _rl_buckets
    /\ ServiceFrame

Feedback ==
    /\ ~last.done
    /\ \E ip \in Clients, env \in LogOnlyEnvs :
           last' = Answered([endpoint |-> "feedback", ip |-> ip, min_len |-> 0,
                             max_len |-> 0, text_words |-> 0],
                            env, [allowed |-> TRUE, retry |-> 0])
    /\ UNCHANGED <<_rl_buckets, pending>>
    /\ ServiceFrame

\* the response has been sent
Respond ==
    /\ last.done
    /\ last' = [done |-> FALSE]
    /\ UNCHANGED <<_rl_buckets, pending>>
    /\ ServiceFrame

\* the clock moves on by the time one token takes to refill
Tick ==
    /\ ~last.done
    /\ advances < MaxServiceAdvances
    /\ now' = now + OneToken
    /\ advances' = advances + 1
    /\ UNCHANGED <<RL_MAX, RL_MINUTES, _rl_buckets, hist, lengthVars, raceVars, serviceVars, textVars>>

Next ==
    \/ Summarize
    \/ SummarizeHtml
    \/ SummarizeUrlBegin
    \/ SummarizeUrlResume
    \/ Feedback
    \/ Respond
    \/ Tick

Spec == Init /\ [][Next]_vars

-----------------------------------------------------------------------------
(* C1: a fresh client's first RL_MAX calls made at one instant are all     *)
(* admitted and the next call at that instant is denied with a retry of at *)
(* least one second; after window_seconds/capacity seconds the next call   *)
(* is admitted and the call right after it is denied.                      *)

BurstAt(h, k) == k <= Len(h) /\ \A i \in 1..k : h[i].t = h[1].t

C2_TokensInRange ==
    /\ \A c \in DOMAIN _rl_buckets :
           /\ 0 <= _rl_buckets[c].tokens
           /\ _rl_buckets[c].tokens <= CapUnits
    /\ \A c \in Clients : \A i \in 1..Len(hist[c]) :
           /\ 0 <= hist[c][i].pre
           /\ hist[c][i].pre <= CapUnits

\* a drained bucket (a call was denied) that a later call refilled to the brim
C2_Witness ==
    \E c \in DOMAIN _rl_buckets : \E i, j \in 1..Len(hist[c]) :
        /\ i < j
        /\ ~hist[c][i].ok
        /\ hist[c][j].pre = CapUnits
        /\ hist[c][j].t - hist[c][i].t > CapUnits

(* C9: for a word count below 80, whenever clamp_lengths succeeds the       *)
(* returned max_len is at most min(120, max(40, round(1.2 w))) and the     *)
(* returned min_len is below the returned max_len.                         *)

\* round(w * 1.2): 12 w / 10 is never a half, so rounding is floor(x + 1/2)
RoundedCeiling(w) == Min(120, Max(40, (w * 12 + 5) \div 10))

Resolved == lenOut.done

C9_ShortInputBound ==
    (Resolved /\ lenArgs.input_words < 80 /\ lenOut.res.ok) =>
        /\ lenOut.res.max_len <= RoundedCeiling(lenArgs.input_words)
        /\ lenOut.res.min_len < lenOut.res.max_len

\* a short input whose requested max_len was cut down to the ceiling, at a
\* word count where truncation and rounding differ (39 * 1.2 = 46.8)
C9_Witness ==
    /\ Resolved /\ lenOut.res.ok
    /\ lenArgs.input_words = 39
    /\ lenArgs.max_len = 180 /\ lenArgs.min_len = 60
    /\ lenOut.res.max_len = 46 /\ lenOut.res.min_len = 36

(* C10: for a word count of 80 or more and 1 <= min_len < max_len <= 240,  *)
(* clamp_lengths succeeds and returns the pair unchanged.                  *)
C10_LongInputPassThrough ==
    (Resolved /\ lenArgs.input_words >= 80
        /\ 1 <= lenArgs.min_len /\ lenArgs.min_len < lenArgs.max_len
        /\ lenArgs.max_len <= 240) =>
        /\ lenOut.res.ok
        /\ lenOut.res.min_len = lenArgs.min_len
        /\ lenOut.res.max_len = lenArgs.max_len

C10_Witness ==
    /\ Resolved /\ lenOut.res.ok
    /\ lenArgs.input_words = 80
    /\ lenArgs.min_len = 60 /\ lenArgs.max_len = 180
    /\ lenOut.res.min_len = 60 /\ lenOut.res.max_len = 180

-----------------------------------------------------------------------------
(* Properties of one request, read off the observer `last`                 *)

SummarizeEndpoints == {"summarize", "summarize-url", "summarize-html"}
ErrorCodes == {"RATE_LIMIT", "NO_CONTENT", "BAD_LENGTHS", "FETCH_FAILED", "MODEL_FAILURE"}

Answering == last.done /\ last.req.endpoint \in SummarizeEndpoints

StageOrder(endpoint) ==
    IF endpoint = "summarize-url"
    THEN <<"admit", "fetch", "extract", "resolve", "summarize">>
    ELSE <<"admit", "extract", "resolve", "summarize">>

IsPrefix(s, t) == Len(s) <= Len(t) /\ \A i \in 1..Len(s) : s[i] = t[i]

Ran(stage) == \E i \in 1..Len(last.out.stages) : last.out.stages[i] = stage

EndsWith(status, code) ==
    last.out.status = status /\ last.out.code = code /\ last.out.envelope

\* what happened to the request, told from its inputs and its environment
WasDenied == ~last.rl.allowed
FetchFailed ==
    last.rl.allowed /\ last.req.endpoint = "summarize-url" /\ last.env.fetch # "ok"
Extracting ==
    /\ last.rl.allowed
    /\ \/ last.req.endpoint = "summarize-html"
       \/ last.req.endpoint = "summarize-url" /\ last.env.fetch = "ok"
ExtractorRaised ==
    /\ Extracting
    /\ \/ "trafilatura" \in last.env.raises
       \/ last.env.primary < 30 /\ "selectolax" \in last.env.raises
ContentWords ==
    IF last.req.endpoint = "summarize" THEN last.req.text_words
    ELSE IF last.env.primary < 30 THEN last.env.fallback ELSE last.env.primary
NoContent ==
    \/ last.rl.allowed /\ last.req.endpoint = "summarize" /\ last.req.text_words = 0
    \/ Extracting /\ ~ExtractorRaised /\ last.env.primary < 30 /\ last.env.fallback < 30
HasContent ==
    \/ last.rl.allowed /\ last.req.endpoint = "summarize" /\ last.req.text_words > 0
    \/ Extracting /\ ~ExtractorRaised /\ ContentWords >= 30
LengthsRejected ==
    HasContent /\ ~clamp_lengths(last.req.min_len, last.req.max_len, ContentWords).ok
ModelRaised ==
    HasContent /\ ~LengthsRejected /\ "summarizer" \in last.env.raises

(* C3: the stages run in the order admit, fetch (URL mode), extract,       *)
(* resolve, summarize, each at most once; the first failing stage ends the *)
(* request with its pair of the table (429 RATE_LIMIT, 502 FETCH_FAILED,   *)
(* 422 NO_CONTENT, 422 BAD_LENGTHS, 500 MODEL_FAILURE) and no later stage  *)
(* runs, so the model is not invoked after an earlier failure.             *)
C3_ShortCircuit ==
    Answering =>
        /\ IsPrefix(last.out.stages, StageOrder(last.req.endpoint))
        /\ WasDenied => EndsWith(429, "RATE_LIMIT") /\ ~Ran("fetch") /\ ~Ran("extract")
        /\ FetchFailed => EndsWith(502, "FETCH_FAILED") /\ ~Ran("extract")
        /\ NoContent => EndsWith(422, "NO_CONTENT") /\ ~Ran("resolve")
        /\ LengthsRejected => EndsWith(422, "BAD_LENGTHS")
        /\ ModelRaised => EndsWith(500, "MODEL_FAILURE")
        /\ (WasDenied \/ FetchFailed \/ NoContent \/ LengthsRejected) => ~Ran("summarize")

(* C4: a request that ends in success or in one of the five error codes    *)
(* has printed exactly one log record, carrying the endpoint name, the     *)
(* status, the client id and the error code.                               *)
C4_OneLogRecord ==
    (Answering /\ last.out.code \in ErrorCodes \cup {"NONE"}) =>
        /\ Len(last.out.logs) = 1
        /\ last.out.logs[1].endpoint = last.req.endpoint
        /\ last.out.logs[1].status = last.out.status
        /\ last.out.logs[1].ip = last.req.ip
        /\ last.out.logs[1].error = last.out.code

(* C5: a fetch failure on /summarize-url ends the request with 502         *)
(* FETCH_FAILED, its log record has extract_ms = 0 and summarize_ms = 0,   *)
(* and neither extraction nor the model runs.                              *)
C5_FetchFailure ==
    (Answering /\ FetchFailed) =>
        /\ EndsWith(502, "FETCH_FAILED")
        /\ Len(last.out.logs) = 1
        /\ last.out.logs[1].extract_ms = 0
        /\ last.out.logs[1].summarize_ms = 0
        /\ ~Ran("extract") /\ ~Ran("summarize")
        /\ last.out.extractors = <<>>

(* C6: a log_json call that raises changes nothing of the response: the    *)
(* request ends with the status and body it has when every call prints.    *)
WithLogging == Handle(last.req, [last.env EXCEPT !.logfail = {}], last.rl)

C6_LogFailureHarmless ==
    last.done =>
        /\ last.out.status = WithLogging.status
        /\ last.out.code = WithLogging.code
        /\ last.out.envelope = WithLogging.envelope
        /\ last.out.summary = WithLogging.summary

(* C7: an exception raised by the fetch client, by either extractor or by  *)
(* the model ends the request with the error envelope and one of the five  *)
(* codes; stated here for requests whose log calls all print.              *)
C7_ClosedTaxonomy ==
    (Answering /\ last.env.logfail = {}
        /\ (FetchFailed \/ ExtractorRaised \/ ModelRaised)) =>
        /\ last.out.envelope
        /\ last.out.code \in ErrorCodes

(* C8: two rl_allow calls for one ip whose steps interleave can both be     *)
(* admitted on a bucket that holds tokens for one admission only.  An ip   *)
(* is over-admitted when its admissions exceed capacity plus what the      *)
(* refill rate yields since its first call; that happens only to an ip     *)
(* whose calls overlapped, and it does happen.                             *)

OverAdmitted(c) ==
    /\ obs[c].first >= 0
    /\ obs[c].admitted * OneToken >
           CapUnits + ((now - obs[c].first) * RL_REFILL_PER_SEC) \div TicksPerSec

C8_OverAdmissionOnlyByRace ==
    \A c \in Clients : OverAdmitted(c) => obs[c].overlap

\* both threads tested a bucket holding at least one and less than two
\* tokens at the same clock reading, and both were admitted
C8_Witness ==
    \E c \in Clients :
        /\ OverAdmitted(c)
        /\ thr["t1"].pc = "idle" /\ thr["t2"].pc = "idle"
        /\ \A t \in Threads :
               /\ thr[t].ret.done /\ thr[t].ret.allowed /\ thr[t].ret.ip = c
               /\ thr[t].ret.tested >= OneToken
               /\ thr[t].ret.tested < 2 * OneToken
        /\ thr["t1"].ret.now = thr["t2"].ret.now
        /\ thr["t1"].ret.b = thr["t2"].ret.b /\ thr["t1"].ret.b # 0

-----------------------------------------------------------------------------
(* C11: clamp_lengths(min_len=60, max_len=180, input_words=10) succeeds    *)
(* and returns min_len = 30 and max_len = 40: the ceiling int(1.2 * 10)    *)
(* = 12 is raised to its floor of 40, and min_len is pulled down to        *)
(* max_len - 10; hence max_len <= 120.                                     *)
Resolve_60_180_10 ==
    /\ Resolved
    /\ lenArgs.min_len = 60 /\ lenArgs.max_len = 180 /\ lenArgs.input_words = 10

C11_DefaultsOnTenWords ==
    Resolve_60_180_10 =>
        /\ lenOut.res.ok
        /\ lenOut.res.min_len = 30 /\ lenOut.res.max_len = 40
        /\ lenOut.res.max_len <= 120

C11_Witness ==
    /\ Resolve_60_180_10
    /\ lenOut.res.ok
    /\ lenOut.res.max_len = NewMax(10)
    /\ lenOut.res.min_len = lenOut.res.max_len - 10

\* C11 with the pair of the specification's example: min_len = 2, max_len = 12
C11_AsStated ==
    Resolve_60_180_10 =>
        /\ lenOut.res.ok
        /\ lenOut.res.min_len = 2 /\ lenOut.res.max_len = 12
        /\ lenOut.res.max_len <= 120

-----------------------------------------------------------------------------
(* C12: clean_text is idempotent: applied to its own result it returns     *)
(* that result, for every string, also one whose collapsed and stripped    *)
(* form is longer than the character budget.                               *)
C12_Idempotent ==
    Len(cleaned) >= 2 => cleaned[2] = cleaned[1]

-----------------------------------------------------------------------------
(* C13: on /summarize-url and /summarize-html extract_selectolax is called *)
(* exactly when extract_trafilatura returned fewer than 30 words, and when *)
(* it is called and returns, its word count is the one the content test,   *)
(* the length policy, the model call and the log record go on with.        *)
Called(extractor) ==
    \E i \in 1..Len(last.out.extractors) : last.out.extractors[i] = extractor

PrimaryReturned == Extracting /\ "trafilatura" \notin last.env.raises

BoundsFor(words) ==
    LET lb == clamp_lengths(last.req.min_len, last.req.max_len, words)
    IN  IF lb.ok THEN [min_len |-> lb.min_len, max_len |-> lb.max_len] ELSE NoBounds

C13_FallbackBelowThirty ==
    (Answering /\ Extracting) =>
        /\ Called("trafilatura")
        /\ (Called("selectolax") <=> (PrimaryReturned /\ last.env.primary < 30))
        /\ ~ExtractorRaised =>
               LET w == IF Called("selectolax") THEN last.env.fallback
                        ELSE last.env.primary
               IN  /\ \A i \in 1..Len(last.out.logs) : last.out.logs[i].words = w
                   /\ last.out.summary => last.out.bounds = BoundsFor(w)
                   /\ (w < 30) => (~Ran("resolve") /\ ~last.out.summary)
                   /\ (w >= 30) => Ran("resolve")

\* the primary yields 10 words, the fallback 40: the 40 words are summarized
C13_Witness ==
    /\ Answering /\ Extracting
    /\ last.env.primary = 10 /\ last.env.fallback = 40
    /\ last.req.min_len = 60 /\ last.req.max_len = 180
    /\ last.out.extractors = <<"trafilatura", "selectolax">>
    /\ last.out.status = 200 /\ last.out.summary
    /\ Len(last.out.logs) = 1 /\ last.out.logs[1].words = 40
    /\ last.out.bounds = [min_len |-> 38, max_len |-> 48]

-----------------------------------------------------------------------------
(* C14: clamp_lengths raises BAD_LENGTHS (422) whenever max(1, min_len) >=  *)
(* min(240, max_len); in every other case it returns a pair with           *)
(* 1 <= min_len < max_len <= 240.  So the second validation, the one of    *)
(* the short-input regime, rejects nothing that passed the first.          *)
C14_FailureCondition ==
    Resolved =>
        LET mn == Max(1, lenArgs.min_len)
            mx == Min(240, lenArgs.max_len)
        IN  /\ (mn >= mx) =>
                   /\ ~lenOut.res.ok
                   /\ lenOut.res.status = 422
                   /\ lenOut.res.code = "BAD_LENGTHS"
            /\ (mn < mx) =>
                   /\ lenOut.res.ok
                   /\ 1 <= lenOut.res.min_len
                   /\ lenOut.res.min_len < lenOut.res.max_len
                   /\ lenOut.res.max_len <= 240

\* resolve(150, 100, 90) fails on the first validation
C14_Witness ==
    /\ Resolved
    /\ lenArgs.min_len = 150 /\ lenArgs.max_len = 100 /\ lenArgs.input_words = 90
    /\ ~lenOut.res.ok
    /\ lenOut.res.code = "BAD_LENGTHS"
    /\ lenOut.res.message = "Invalid bounds"

-----------------------------------------------------------------------------
(* C16: for a word count below 80, whenever clamp_lengths succeeds the     *)
(* returned bounds are at least 10 apart if the returned max_len is 11 or  *)
(* more; a smaller max_len comes with min_len = 1, the floor.              *)
ShortResolved == Resolved /\ lenArgs.input_words < 80 /\ lenOut.res.ok

C16_GapOrFloor ==
    ShortResolved =>
        IF lenOut.res.max_len >= 11
        THEN lenOut.res.max_len - lenOut.res.min_len >= 10
        ELSE lenOut.res.min_len = 1

\* a requested pair closer than 10 is pulled apart to exactly 10
C16_Witness ==
    /\ ShortResolved
    /\ lenArgs.min_len = 39 /\ lenArgs.max_len = 41 /\ lenArgs.input_words = 79
    /\ lenOut.res.min_len = 31 /\ lenOut.res.max_len = 41

\* C16 without the exception: the gap is at least 10 on every success
C16_AsStated ==
    ShortResolved => lenOut.res.max_len - lenOut.res.min_len >= 10

-----------------------------------------------------------------------------
(* C15: a denied rl_allow call returns max(1, ceil((1 - tokens) /           *)
(* refill_rate)) seconds, tokens being the bucket's refilled count at the  *)
(* call, and the Retry-After header of the 429 carries that number of      *)
(* whole seconds.                                                          *)

CeilDiv(a, b) == (a + b - 1) \div b

\* (1 - tokens) / refill_rate in seconds, rounded up and floored at 1:
\* OneToken - tokens units are missing and RL_MAX units refill per second
CeilRetrySeconds(tokens) == Max(1, CeilDiv(OneToken - tokens, RL_MAX))

C15_RetryIsCeiling ==
    \A c \in Clients : \A i \in 1..Len(hist[c]) :
        ~hist[c][i].ok =>
            /\ hist[c][i].retry = CeilRetrySeconds(hist[c][i].pre) * TicksPerSec
            /\ RetryAfterHeader(hist[c][i].retry) = CeilRetrySeconds(hist[c][i].pre)

-----------------------------------------------------------------------------
(* C17: a client that is denied with Retry-After: r, makes no other call   *)
(* and calls again exactly r seconds later is admitted.                    *)
C17_RetryAfterSuffices ==
    \A c \in Clients : \A i \in 1..(Len(hist[c]) - 1) :
        (/\ ~hist[c][i].ok
         /\ hist[c][i + 1].t - hist[c][i].t =
                RetryAfterHeader(hist[c][i].retry) * TicksPerSec)
            => hist[c][i + 1].ok

-----------------------------------------------------------------------------
(* C18: under sequential calls and a non-decreasing clock, the calls of    *)
(* one client admitted from its first call up to T seconds later number    *)
(* at most capacity + T * refill_rate, refill_rate = capacity / window.    *)

RECURSIVE AdmittedUpTo(_, _)
AdmittedUpTo(h, k) ==
    IF k = 0 THEN 0 ELSE AdmittedUpTo(h, k - 1) + (IF h[k].ok THEN 1 ELSE 0)

WindowSeconds == RL_MINUTES * 60

\* admitted <= RL_MAX + (ticks / TicksPerSec) * (RL_MAX / WindowSeconds),
\* both sides multiplied by TicksPerSec * WindowSeconds
WithinBudget(admitted, ticks) ==
    admitted * TicksPerSec * WindowSeconds
        <= RL_MAX * TicksPerSec * WindowSeconds + ticks * RL_MAX

C18_AdmissionBound ==
    \A c \in Clients : \A k \in 1..Len(hist[c]) :
        WithinBudget(AdmittedUpTo(hist[c], k), hist[c][k].t - hist[c][1].t)

\* the bound is met with equality some time after the first call: a full
\* burst, then one more admission as soon as a token has refilled
C18_Witness ==
    \E c \in Clients :
        LET h == hist[c]
            k == Len(h)
        IN  /\ k > RL_MAX
            /\ h[k].ok /\ h[k].t > h[1].t
            /\ AdmittedUpTo(h, k) = RL_MAX + 1
            /\ ~WithinBudget(AdmittedUpTo(h, k) + 1, h[k].t - h[1].t)
            /\ \E i \in 1..k : ~h[i].ok

-----------------------------------------------------------------------------
(* C19: a denied call takes no token and keeps what has refilled: the next *)
(* call of the client starts from the denied call's token count plus the   *)
(* refill since then.  So however often a client calls while it is denied, *)
(* the call it makes (1 - tokens) / refill_rate seconds or more after a    *)
(* denial at token count `tokens` is admitted.                             *)

DeniedFromTo(h, i, j) == i < j /\ \A k \in i..(j - 1) : ~h[k].ok

\* elapsed * refill_rate, in token units, for an elapsed time in ticks
RefillOver(ticks) == (ticks * RL_MAX * OneToken) \div (WindowSeconds * TicksPerSec)

-----------------------------------------------------------------------------
(* C20: a call rl_allow(a) creates or changes the bucket of a only: every  *)
(* other client's bucket keeps its tokens and its timestamp, a client      *)
(* without a bucket stays without one, no bucket ever leaves the map, and  *)
(* whether another client would be admitted now is the same before and     *)
(* after the call.                                                         *)

\* the step is not a call of client b
NotCalled(b) == hist'[b] = hist[b]

WouldAdmit(m, b) == rl_allow(m, b, now).allowed

C20_Isolation ==
    [][ /\ DOMAIN _rl_buckets \subseteq DOMAIN _rl_buckets'
        /\ \A b \in Clients :
               NotCalled(b) =>
                   /\ (b \in DOMAIN _rl_buckets) = (b \in DOMAIN _rl_buckets')
                   /\ b \in DOMAIN _rl_buckets => _rl_buckets'[b] = _rl_buckets[b]
                   /\ now' = now => WouldAdmit(_rl_buckets', b) = WouldAdmit(_rl_buckets, b)
      ]_vars

\* both clients have a bucket; "b" was drained and denied, then "a" called
\* later: the bucket of "b" is still as its own last call left it
C20_Witness ==
    /\ DOMAIN _rl_buckets = Clients
    /\ LET ha == hist["a"]
           hb == hist["b"]
       IN  /\ ~hb[Len(hb)].ok
           /\ ha[Len(ha)].t > hb[Len(hb)].t
           /\ Len(ha) >= 2
           /\ _rl_buckets["a"].ts = ha[Len(ha)].t
           /\ _rl_buckets["b"] = [tokens |-> hb[Len(hb)].pre, ts |-> hb[Len(hb)].t]
           /\ _rl_buckets["b"].tokens # _rl_buckets["a"].tokens

=============================================================================
